---- MODULE Spec2Model ----
(***************************************************************************)
(* Model of the memory-driven assistant: the PostgreSQL memory layer       *)
(* (src/memory.py), the LLM provider adapters (src/llm_providers.py), the  *)
(* provider selection and session loop (src/main.py) and the assistant's   *)
(* respond turn.                                                           *)
(*                                                                         *)
(* Text is modelled as a sequence of tokens: a literal of the source is    *)
(* one token, an interpolated value contributes its own tokens.            *)
(***************************************************************************)
EXTENDS Integers, Sequences, FiniteSets, TLC

\* ------------------------------------------------------------------ bounds
\* number of save_memory calls (values drawn from the memories id sequence)
MaxSaves == 2
\* number of rows of the interactions table
MaxLog == 2
\* the database clock takes the values 0..MaxClock
MaxClock == 1
\* limits given to get_recent_history besides the default
MaxLimit == 1

\* number of respond turns of a session
MaxTurns == 2
\* number of manual saves of a session
MaxSessionSaves == 1
\* save_memory calls of each concurrent caller
MaxCalls == 1
\* largest number of retries given to _wait_for_db, beside its default
MaxRetries == 3
\* save_preference calls made on a CustomerIntelligenceAgent
MaxPrefSaves == 2
\* tokens of a prompt given to a provider
MaxPromptLen == 2
\* turns of a context given to a provider
MaxCtxLen == 2

\* default of get_recent_history's limit parameter
DefaultLimit == 5
\* retrieve_context: similarity_search(query, k=3) and LIMIT 10
SearchK == 3
PrefLimit == 10

\* ------------------------------------------------------------------ inputs
Users == {"A", "B"}
\* keys of facts, as their characters
Keys == {<<"h", "o", "b", "b", "y">>, <<"c", "i", "t", "y">>}
Values == {<<"chess">>, <<"go">>}
Roles == {"user", "assistant"}
Msgs == {<<"hello">>, <<"hi">>}
\* main's user_id, the one user of a session
SessionUser == "A"
\* values given to save_memory, the empty string among them
FactValues == Values \cup {<<>>}
OneKey == {<<"h", "o", "b", "b", "y">>}
OneMsg == {<<"hello">>}
Limits == (0..MaxLimit) \cup {DefaultLimit}
TableNames == {"memories", "interactions"}

\* Python values returned by the memory layer
PyNone == [py |-> "None"]
PyStr(s) == [py |-> "str", val |-> s]

\* Python values: None, or a str as its sequence of characters or tokens
Truthy(x) == x.py = "str" /\ x.val # <<>>
\* a or b
PyOr(a, b) == IF Truthy(a) THEN a ELSE b

\* names the LLM_PROVIDER variable is set to, as characters
Str_openai == <<"o", "p", "e", "n", "a", "i">>
Str_anthropic == <<"a", "n", "t", "h", "r", "o", "p", "i", "c">>
Str_claude == <<"c", "l", "a", "u", "d", "e">>
Str_gemini == <<"g", "e", "m", "i", "n", "i">>
Str_google == <<"g", "o", "o", "g", "l", "e">>
Str_mock == <<"m", "o", "c", "k">>
ProviderNames ==
    {Str_openai, Str_anthropic, Str_claude, Str_gemini, Str_google, Str_mock,
     <<"O", "p", "e", "n", "A", "I">>, <<"C", "l", "a", "u", "d", "e">>,
     <<"G", "E", "M", "I", "N", "I">>, <<"l", "l", "a", "m", "a">>, <<>>}
ProviderSettings == {PyNone} \cup {PyStr(n) : n \in ProviderNames}
ApiKeys == {PyNone, PyStr(<<>>), PyStr(<<"sk">>)}
\* environments with the provider setting drawn from S
EnvsWith(S) ==
    {[LLM_PROVIDER |-> p, OPENAI_API_KEY |-> a, ANTHROPIC_API_KEY |-> b,
      GOOGLE_API_KEY |-> c] : p \in S, a \in ApiKeys, b \in ApiKeys, c \in ApiKeys}
VendorClasses == {"OpenAIProvider", "ClaudeProvider", "GeminiProvider"}

\* prompts and contexts given to generate
Tokens == {"hi", "yo"}
Prompts == UNION {[1..n -> Tokens] : n \in 0..MaxPromptLen}
ContextsOver(M) == UNION {[1..n -> [role : Roles, content : M]] : n \in 0..MaxCtxLen}
\* contexts of every length made of one user turn repeated
ContextsOfUser ==
    {[i \in 1..n |-> [role |-> "user", content |-> <<"hello">>]] : n \in 0..MaxCtxLen}
\* texts a vendor backend replies with
BackendReplies == {<<"sure">>}

VARIABLES
    tables,              \* tables that exist in the database
    memories,            \* rows of table memories (a set; UNIQUE(user_id, key))
    memories_id_seq,     \* last value of the SERIAL sequence of memories.id
    interactions,        \* rows of table interactions, in insertion order
    now,                 \* CURRENT_TIMESTAMP of the database server
    result,              \* the last memory-layer call and what it returned
    lastSaved,           \* history: value of the most recent save_memory per (user, key)
    savedBy,             \* history: every <<user, key, value>> given to save_memory
    loggedBy,            \* history: every <<user, role, content>> given to log_interaction
    env,                 \* the process environment (os.getenv)
    provider,            \* the provider object last constructed
    call,                \* the last provider call and its outcome
    prev,                \* the provider call before it
    assistant,           \* the assistant object main sets up
    pc,                  \* where main is: its startup steps, its prompt, a step of respond
    turns,               \* number of respond turns begun
    turn,                \* the respond turn under way, or the last one
    io,                  \* the line main last read and what it printed for it
    dbm,                 \* the PostgresManager and its start_container call
    txs,                 \* the save_memory calls of concurrent callers, each on its connection
    cia                  \* the CustomerIntelligenceAgent: its table, vector store and chat history

memVars == <<tables, memories, memories_id_seq, interactions, now, result,
             lastSaved, savedBy, loggedBy>>

provVars == <<env, provider, call, prev, assistant>>

agentVars == <<pc, turns, turn, io, dbm, txs, cia>>

vars == <<memVars, provVars, agentVars>>

NoResult == [op |-> "none"]

\* ------------------------------------------------------------ memory layer
Min(a, b) == IF a <= b THEN a ELSE b

Reverse(s) == [i \in 1..Len(s) |-> s[Len(s) + 1 - i]]

\* CREATE TABLE IF NOT EXISTS, twice: existing tables and their rows are kept
CreateTablesIfNotExist(ts) == ts \cup TableNames

\* DROP TABLE IF EXISTS name; CREATE TABLE name: the table starts empty
CreateTableDropping(ts, name, rows, empty) == empty

\* CREATE TABLE IF NOT EXISTS name: an existing table keeps its rows, a new
\* table has none
CreateTableIfNotExists(ts, name, rows, empty) ==
    IF name \in ts THEN rows ELSE empty

\* INSERT INTO memories ... ON CONFLICT (user_id, key) DO NOTHING
InsertOnConflictDoNothing(rows, id, u, k, v) ==
    IF \E r \in rows : r.user_id = u /\ r.key = k
    THEN rows
    ELSE rows \cup {[id |-> id, user_id |-> u, key |-> k, value |-> v]}

\* INSERT INTO memories (user_id, key, value) VALUES (u, k, v)
\* ON CONFLICT (user_id, key) DO UPDATE SET value = EXCLUDED.value
\* (a row is its id, user_id, key and value; created_at is set by default
\* and no statement reads or updates it)
InsertOnConflictUpdate(rows, id, u, k, v) ==
    IF \E r \in rows : r.user_id = u /\ r.key = k
    THEN {IF r.user_id = u /\ r.key = k THEN [r EXCEPT !.value = v] ELSE r : r \in rows}
    ELSE rows \cup {[id |-> id, user_id |-> u, key |-> k, value |-> v]}

\* SELECT ... FROM memories with no WHERE clause
SelectMemoriesUnfiltered(rows, u) == rows

\* SELECT ... FROM memories WHERE user_id = u
SelectMemories(rows, u) == {r \in rows : r.user_id = u}

\* a lookup that returns the empty string when there is no row
GetMemoryValueOrEmpty(rows, u, k) ==
    LET hit == {r \in rows : r.user_id = u /\ r.key = k}
    IN  IF hit = {} THEN PyStr(<<>>) ELSE PyStr((CHOOSE r \in hit : TRUE).value)

\* SELECT value FROM memories WHERE user_id = u AND key = k; fetchone();
\* result[0] if result else None
GetMemoryValue(rows, u, k) ==
    LET hit == {r \in SelectMemories(rows, u) : r.key = k}
    IN  IF hit = {} THEN PyNone ELSE PyStr((CHOOSE r \in hit : TRUE).value)

\* {row['key']: row['value'] for row in results}: the dict as its set of items
GetAllMemoriesDict(rows, u) ==
    {<<r.key, r.value>> : r \in SelectMemories(rows, u)}

\* an INSERT INTO interactions that replaces the entries the user has
InsertInteractionReplacing(rows, u, role, content, ts) ==
    Append(SelectSeq(rows, LAMBDA r : r.user_id # u),
           [id |-> Len(rows) + 1, user_id |-> u, role |-> role,
            content |-> content, timestamp |-> ts])

\* an INSERT INTO interactions that is never committed
InsertInteractionNotCommitted(rows, u, role, content, ts) == rows

\* INSERT INTO interactions that stores every entry with role 'user'
InsertInteractionRoleUser(rows, u, role, content, ts) ==
    Append(rows, [id |-> Len(rows) + 1, user_id |-> u, role |-> "user",
                  content |-> content, timestamp |-> ts])

\* INSERT INTO interactions (user_id, role, content) VALUES (u, role, content);
\* id is the next SERIAL value, timestamp defaults to CURRENT_TIMESTAMP
InsertInteraction(rows, u, role, content, ts) ==
    Append(rows, [id |-> Len(rows) + 1, user_id |-> u, role |-> role,
                  content |-> content, timestamp |-> ts])

\* SELECT ... FROM interactions with no WHERE clause
SelectInteractionsUnfiltered(rows, u) == rows

\* SELECT ... FROM interactions WHERE user_id = u (heap order)
SelectInteractions(rows, u) == SelectSeq(rows, LAMBDA r : r.user_id = u)

RowsOf(rows) == {rows[i] : i \in 1..Len(rows)}

\* the rows of a set that no other row of it exceeds in timestamp
Newest(S) == {r \in S : \A q \in S : q.timestamp <= r.timestamp}

RECURSIVE OrdersDesc(_)
\* every sequence of the rows of S in which timestamps never increase
OrdersDesc(S) ==
    IF S = {} THEN {<<>>}
    ELSE UNION {{<<r>> \o rest : rest \in OrdersDesc(S \ {r})} : r \in Newest(S)}

\* ORDER BY timestamp DESC: every order of the rows in which timestamps never
\* increase; rows of equal timestamp come in an order the server chooses
OrderByTimestampDesc(rows) == OrdersDesc(RowsOf(rows))

\* LIMIT k
LimitRows(s, k) == SubSeq(s, 1, Min(k, Len(s)))

\* the columns SELECT role, content, timestamp keeps
ProjectInteraction(r) ==
    [role |-> r.role, content |-> r.content, timestamp |-> r.timestamp]

ProjectRows(s) == [i \in 1..Len(s) |-> ProjectInteraction(s[i])]

\* results[::-1] of the rows fetched newest first: the lists a call may return
GetRecentHistoryResults(rows, u, limit) ==
    {Reverse(ProjectRows(LimitRows(s, limit))) :
        s \in OrderByTimestampDesc(SelectInteractions(rows, u))}

\* -------------------------------------------------------- memory operations
\* PostgresMemoryDB(db_url): __init__ runs _init_db
PostgresMemoryDB_init ==
    /\ memories' = CreateTableIfNotExists(tables, "memories", memories, {})
    /\ interactions' = CreateTableIfNotExists(tables, "interactions", interactions, <<>>)
    /\ tables' = CreateTablesIfNotExist(tables)
    /\ result' = [op |-> "init"]
    /\ UNCHANGED <<memories_id_seq, now, lastSaved, savedBy, loggedBy>>
    /\ UNCHANGED <<provVars, agentVars>>

save_memory(u, k, v) ==
    /\ "memories" \in tables
    /\ memories_id_seq < MaxSaves
    /\ memories' = InsertOnConflictUpdate(memories, memories_id_seq + 1, u, k, v)
    /\ memories_id_seq' = memories_id_seq + 1
    /\ lastSaved' = [lastSaved EXCEPT ![<<u, k>>] = PyStr(v)]
    /\ savedBy' = savedBy \cup {<<u, k, v>>}
    /\ result' = [op |-> "save_memory", user_id |-> u, key |-> k, value |-> v]
    /\ UNCHANGED <<tables, interactions, now, loggedBy>>
    /\ UNCHANGED <<provVars, agentVars>>

get_memory(u, k) ==
    /\ "memories" \in tables
    /\ result' = [op |-> "get_memory", user_id |-> u, key |-> k,
                  ret |-> GetMemoryValue(memories, u, k)]
    /\ UNCHANGED <<tables, memories, memories_id_seq, interactions, now,
                   lastSaved, savedBy, loggedBy>>
    /\ UNCHANGED <<provVars, agentVars>>

get_all_memories(u) ==
    /\ "memories" \in tables
    /\ result' = [op |-> "get_all_memories", user_id |-> u,
                  ret |-> GetAllMemoriesDict(memories, u)]
    /\ UNCHANGED <<tables, memories, memories_id_seq, interactions, now,
                   lastSaved, savedBy, loggedBy>>
    /\ UNCHANGED <<provVars, agentVars>>

log_interaction(u, role, content) ==
    /\ "interactions" \in tables
    /\ Len(interactions) < MaxLog
    /\ interactions' = InsertInteraction(interactions, u, role, content, now)
    /\ loggedBy' = loggedBy \cup {<<u, role, content>>}
    /\ result' = [op |-> "log_interaction", user_id |-> u, role |-> role,
                  content |-> content]
    /\ UNCHANGED <<tables, memories, memories_id_seq, now, lastSaved, savedBy>>
    /\ UNCHANGED <<provVars, agentVars>>

get_recent_history(u, limit) ==
    /\ "interactions" \in tables
    /\ \E ret \in GetRecentHistoryResults(interactions, u, limit) :
           result' = [op |-> "get_recent_history", user_id |-> u,
                      limit |-> limit, ret |-> ret]
    /\ UNCHANGED <<tables, memories, memories_id_seq, interactions, now,
                   lastSaved, savedBy, loggedBy>>
    /\ UNCHANGED <<provVars, agentVars>>

\* the server's clock advances between two statements, or does not
Tick ==
    /\ now < MaxClock
    /\ now' = now + 1
    /\ UNCHANGED <<tables, memories, memories_id_seq, interactions, result,
                   lastSaved, savedBy, loggedBy>>
    /\ UNCHANGED <<provVars, agentVars>>

\* --------------------------------------------------------------- providers
NoProvider == [cls |-> "none"]
NoDbm == [pc |-> "none"]
NoTxs == <<>>
NoCia == [pc |-> "none"]
NoCall == [op |-> "none"]
NoRequest == [api |-> "none"]
NoAssistant == [cls |-> "none"]

UpperLetters ==
    <<"A", "B", "C", "D", "E", "F", "G", "H", "I", "J", "K", "L", "M",
      "N", "O", "P", "Q", "R", "S", "T", "U", "V", "W", "X", "Y", "Z">>
LowerLetters ==
    <<"a", "b", "c", "d", "e", "f", "g", "h", "i", "j", "k", "l", "m",
      "n", "o", "p", "q", "r", "s", "t", "u", "v", "w", "x", "y", "z">>

\* str.lower(), character by character
LowerChar(c) ==
    IF \E i \in DOMAIN UpperLetters : UpperLetters[i] = c
    THEN LowerLetters[CHOOSE i \in DOMAIN UpperLetters : UpperLetters[i] = c]
    ELSE c

Lower(str) == [i \in 1..Len(str) |-> LowerChar(str[i])]

\* os.getenv(name): the value, or None when the variable is not set
Getenv(e, name) == e[name]

\* os.getenv(name, default)
GetenvDefault(e, name, default) ==
    IF e[name].py = "None" THEN default ELSE e[name].val

\* the environment variable each vendor class reads its key from
KeyVariable(cls) ==
    CASE cls = "OpenAIProvider" -> "OPENAI_API_KEY"
      [] cls = "ClaudeProvider" -> "ANTHROPIC_API_KEY"
      [] cls = "GeminiProvider" -> "GOOGLE_API_KEY"

\* OpenAIProvider / ClaudeProvider / GeminiProvider __init__:
\* self.api_key = api_key or os.getenv(...); the client is built only with a
\* key, otherwise a warning is printed
VendorInit(cls, api_key, e) ==
    LET key == PyOr(api_key, Getenv(e, KeyVariable(cls)))
    IN  [status |-> "returned",
         obj |-> [cls |-> cls, api_key |-> key, has_client |-> Truthy(key)]]

\* MockProvider(): no constructor of its own
MockInit ==
    [status |-> "returned",
     obj |-> [cls |-> "MockProvider", api_key |-> PyNone, has_client |-> FALSE]]

\* get_provider with an unknown name treated as an error
GetProviderStrict(e) ==
    LET provider_name == Lower(GetenvDefault(e, "LLM_PROVIDER", Str_mock))
    IN  IF provider_name = Str_openai
        THEN VendorInit("OpenAIProvider", PyNone, e)
        ELSE IF provider_name = Str_anthropic \/ provider_name = Str_claude
        THEN VendorInit("ClaudeProvider", PyNone, e)
        ELSE IF provider_name = Str_gemini \/ provider_name = Str_google
        THEN VendorInit("GeminiProvider", PyNone, e)
        ELSE IF provider_name = Str_mock
        THEN MockInit
        ELSE [status |-> "raised", obj |-> NoProvider]

\* get_provider(): provider_name = os.getenv("LLM_PROVIDER", "mock").lower()
GetProvider(e) ==
    LET provider_name == Lower(GetenvDefault(e, "LLM_PROVIDER", Str_mock))
    IN  IF provider_name = Str_openai
        THEN VendorInit("OpenAIProvider", PyNone, e)
        ELSE IF provider_name = Str_anthropic \/ provider_name = Str_claude
        THEN VendorInit("ClaudeProvider", PyNone, e)
        ELSE IF provider_name = Str_gemini \/ provider_name = Str_google
        THEN VendorInit("GeminiProvider", PyNone, e)
        ELSE MockInit

\* the error string each vendor returns without a key
MissingKeyText(cls) ==
    CASE cls = "OpenAIProvider" -> <<"Error:", " OpenAI API Key missing.">>
      [] cls = "ClaudeProvider" -> <<"Error:", " Anthropic API Key missing.">>
      [] cls = "GeminiProvider" -> <<"Error:", " Google API Key missing.">>

\* OpenAI messages without the final append of the prompt
OpenAIMessagesNoPrompt(prompt, context) ==
    <<[role |-> "system", content |-> <<"You are a helpful assistant.">>]>>
    \o [i \in 1..Len(context) |->
           [role |-> IF context[i].role = "user" THEN "user" ELSE "assistant",
            content |-> context[i].content]]

\* OpenAIProvider.generate: the system message, the context with
\* role = "user" if msg['role'] == 'user' else "assistant", then the prompt
OpenAIMessages(prompt, context) ==
    <<[role |-> "system", content |-> <<"You are a helpful assistant.">>]>>
    \o [i \in 1..Len(context) |->
           [role |-> IF context[i].role = "user" THEN "user" ELSE "assistant",
            content |-> context[i].content]]
    \o <<[role |-> "user", content |-> prompt]>>

\* ClaudeProvider.generate: the context with its roles as given, then the prompt
ClaudeMessages(prompt, context) ==
    [i \in 1..Len(context) |->
        [role |-> context[i].role, content |-> context[i].content]]
    \o <<[role |-> "user", content |-> prompt]>>

\* GeminiProvider.generate: history for start_chat with
\* role = "user" if msg['role'] == "user" else "model", parts = [content]
GeminiHistory(context) ==
    [i \in 1..Len(context) |->
        [role |-> IF context[i].role = "user" THEN "user" ELSE "model",
         parts |-> <<context[i].content>>]]

\* what a vendor's generate hands to its backend
VendorRequest(cls, prompt, context) ==
    CASE cls = "OpenAIProvider" ->
             [api |-> "chat.completions.create",
              messages |-> OpenAIMessages(prompt, context)]
      [] cls = "ClaudeProvider" ->
             [api |-> "messages.create",
              messages |-> ClaudeMessages(prompt, context)]
      [] cls = "GeminiProvider" ->
             [api |-> "start_chat.send_message",
              history |-> GeminiHistory(context), message |-> prompt]

\* a vendor's generate with no check of the key: without a client the call
\* on self.client raises
VendorGenerateUnguarded(self, prompt, context) ==
    IF ~self.has_client
    THEN {[status |-> "raised", ret |-> <<>>, request |-> NoRequest]}
    ELSE {[status |-> "returned", ret |-> r,
           request |-> VendorRequest(self.cls, prompt, context)] : r \in BackendReplies}
         \cup {[status |-> "raised", ret |-> <<>>,
                request |-> VendorRequest(self.cls, prompt, context)]}

\* OpenAIProvider / ClaudeProvider / GeminiProvider generate: without a key
\* the error string is returned; otherwise the backend is called and either
\* answers or raises
VendorGenerate(self, prompt, context) ==
    IF ~Truthy(self.api_key)
    THEN {[status |-> "returned", ret |-> MissingKeyText(self.cls), request |-> NoRequest]}
    ELSE {[status |-> "returned", ret |-> r,
           request |-> VendorRequest(self.cls, prompt, context)] : r \in BackendReplies}
         \cup {[status |-> "raised", ret |-> <<>>,
                request |-> VendorRequest(self.cls, prompt, context)]}

\* a mock reply that reports the context size only
MockReplyWithoutPrompt(prompt, context) ==
    <<"[MOCK AI] I received your message.", " Context size: ", ToString(Len(context))>>

\* f"[MOCK AI] I received your message: '{prompt}'. Context size: {len(context)}"
MockReply(prompt, context) ==
    <<"[MOCK AI] I received your message: '">> \o prompt
    \o <<"'. Context size: ", ToString(Len(context))>>

\* MockProvider.generate
MockGenerate(self, prompt, context) ==
    {[status |-> "returned", ret |-> MockReply(prompt, context), request |-> NoRequest]}

\* provider.generate(prompt, context), by the class of the provider
Generate(self, prompt, context) ==
    IF self.cls = "MockProvider"
    THEN MockGenerate(self, prompt, context)
    ELSE VendorGenerate(self, prompt, context)

\* ------------------------------------------------------ provider operations
\* OpenAIProvider(api_key), ClaudeProvider(api_key), GeminiProvider(api_key)
ConstructVendor(cls, api_key) ==
    /\ LET made == VendorInit(cls, api_key, env)
       IN  /\ provider' = made.obj
           /\ call' = [op |-> "construct", cls |-> cls, arg |-> api_key,
                       status |-> made.status]
    /\ UNCHANGED <<env, prev, assistant>>
    /\ UNCHANGED <<memVars, turns, turn, io, dbm, txs, cia>>
    /\ UNCHANGED pc

\* MockProvider()
ConstructMock ==
    /\ provider' = MockInit.obj
    /\ call' = [op |-> "construct", cls |-> "MockProvider", arg |-> PyNone,
                status |-> MockInit.status]
    /\ UNCHANGED <<env, prev, assistant>>
    /\ UNCHANGED <<memVars, turns, turn, io, dbm, txs, cia>>
    /\ UNCHANGED pc

\* the call record of provider.generate(prompt, context)
GenerateCall(prompt, context) ==
    /\ provider # NoProvider
    /\ \E o \in Generate(provider, prompt, context) :
           call' = [op |-> "generate", self |-> provider, prompt |-> prompt,
                    context |-> context, status |-> o.status, ret |-> o.ret,
                    request |-> o.request]

\* provider.generate(prompt, context)
generate(prompt, context) ==
    /\ GenerateCall(prompt, context)
    /\ UNCHANGED <<env, provider, prev, assistant>>
    /\ UNCHANGED <<memVars, turns, turn, io, dbm, txs, cia>>
    /\ UNCHANGED pc

\* provider.generate(prompt, context), the call before it remembered
generate_again(prompt, context) ==
    /\ GenerateCall(prompt, context)
    /\ prev' = call
    /\ UNCHANGED <<env, provider, assistant>>
    /\ UNCHANGED <<memVars, turns, turn, io, dbm, txs, cia>>
    /\ UNCHANGED pc

\* main: provider = get_provider()
main_get_provider ==
    /\ pc = "select"
    /\ LET got == GetProvider(env)
       IN  /\ provider' = got.obj
           /\ call' = [op |-> "get_provider", status |-> got.status]
    /\ UNCHANGED <<env, prev, assistant>>
    /\ UNCHANGED <<memVars, turns, turn, io, dbm, txs, cia>>
    /\ pc' = IF GetProvider(env).status = "returned" THEN "setup" ELSE "exited"

\* SmartAssistant(provider=provider, memory=memory): keeps both
SmartAssistantInit(p) == [cls |-> "SmartAssistant", provider |-> p]

\* main: assistant = SmartAssistant(provider=provider, memory=memory)
main_setup_assistant ==
    /\ pc = "setup"
    /\ assistant' = SmartAssistantInit(provider)
    /\ UNCHANGED <<env, provider, call, prev>>
    /\ UNCHANGED <<memVars, turns, turn, io, dbm, txs, cia>>
    /\ pc' = "input"

\* ----------------------------------------------------- assistant, session
\* the steps of SmartAssistant.respond with the inbound message logged last
\* before generation
RespondStepsReadFirst ==
    <<"read_history", "read_facts", "log_inbound", "generate", "log_outbound", "return">>

\* the steps of SmartAssistant.respond(user_id, message), in order
RespondSteps ==
    <<"log_inbound", "read_history", "read_facts", "generate", "log_outbound", "return">>

\* the step after step st
StepAfter(st) ==
    RespondSteps[(CHOOSE i \in DOMAIN RespondSteps : RespondSteps[i] = st) + 1]

RECURSIVE FactLines(_)
\* the facts as key:value lines, one fact after the other
FactLines(facts) ==
    IF facts = {} THEN <<>>
    ELSE LET f == CHOOSE g \in facts : TRUE
         IN  f[1] \o <<":">> \o f[2] \o <<"\n">> \o FactLines(facts \ {f})

\* the prompt of a turn: the facts block, set apart, then the message
FormatPrompt(facts, message) ==
    <<"Known facts:\n">> \o FactLines(facts) \o <<"User message: ">> \o message

\* ------------------------------------------------ CustomerIntelligenceAgent
\* the category tags given to save_preference
Categories == {"personal"}

\* queries and user messages given to the agent
Queries == {<<"what do I like?">>}

\* CustomerIntelligenceAgent(user_id): an empty chat history, the vector
\* store collection and the preferences table as first created
CiaInit ==
    [pc |-> "ready", preferences |-> {}, vectors |-> <<>>, short_term |-> <<>>,
     clock |-> 0, saves |-> 0, turns |-> 0, last |-> [op |-> "init"],
     lastPref |-> [k \in Keys |-> PyNone]]

\* f"{key}: {value}", the text save_preference gives to the vector store
PrefText(k, v) == k \o <<":", " ">> \o v

\* an INSERT that leaves a row of the same key in place beside the new one
InsertKeepingBoth(rows, row) == rows \cup {row}

\* INSERT OR REPLACE INTO preferences, key being the PRIMARY KEY: a row of
\* the same key is deleted, then the row is inserted
InsertOrReplace(rows, row) == {r \in rows : r.key # row.key} \cup {row}

\* vectorstore.add_texts(texts=[text], metadatas=[{category, type}]): one
\* more document, under an id of its own
AddTexts(vs, text, category) ==
    Append(vs, [text |-> text, category |-> category, type |-> "preference"])

\* the sequences of n different positions of a store of m documents
RECURSIVE Rankings(_, _)
Rankings(S, n) ==
    IF n = 0 THEN {<<>>}
    ELSE UNION {{<<i>> \o rest : rest \in Rankings(S \ {i}, n - 1)} : i \in S}

\* vectorstore.similarity_search(query, k): the k documents nearest to the
\* query, all of them when the store holds no more than k; which ones are
\* nearest is up to the embedding model
SimilaritySearch(vs, query, k) ==
    {[j \in 1..Len(rk) |-> vs[rk[j]].text] : rk \in Rankings(DOMAIN vs, Min(k, Len(vs)))}

\* SELECT key, value, category FROM preferences ORDER BY timestamp DESC LIMIT 10
SelectPreferences(rows) ==
    {[j \in 1..Min(PrefLimit, Len(o)) |-> <<o[j].key, o[j].value, o[j].category>>] :
         o \in OrdersDesc(rows)}

RECURSIVE JoinLines(_)
\* "\n".join(lines)
JoinLines(lines) ==
    IF lines = <<>> THEN <<>>
    ELSE IF Len(lines) = 1 THEN lines[1]
    ELSE lines[1] \o <<"\n">> \o JoinLines(Tail(lines))

\* retrieve_context, step 3: the context string of the documents and rows
FormatContext(docs, preferences) ==
    <<"Relevant past information:\n">>
    \o (IF docs # <<>>
        THEN JoinLines([j \in 1..Len(docs) |-> <<"- ">> \o docs[j]])
        ELSE <<"(No relevant past context found)">>)
    \o <<"\n\nUser preferences:\n">>
    \o (IF preferences # <<>>
        THEN JoinLines([j \in 1..Len(preferences) |->
                 <<"- ">> \o PrefText(preferences[j][1], preferences[j][2])
                 \o <<" (", preferences[j][3], ")">>])
        ELSE <<"(No known preferences)">>)

\* short_term_memory.load_memory_variables({})['chat_history']: what the
\* memory holds of the exchanges saved so far
RECURSIVE ChatHistory(_)
ChatHistory(mem) ==
    IF mem = <<>> THEN <<>>
    ELSE mem[1].input \o mem[1].output \o ChatHistory(Tail(mem))

\* short_term_memory.save_context({"input": m}, {"output": reply})
SaveContext(mem, m, reply) == Append(mem, [input |-> m, output |-> reply])

\* respond, step 3: the prompt handed to the LLM
CiaPrompt(context, chat_history, m) ==
    <<"Context about this user (Long-term Memory):">> \o context
    \o <<"Current conversation history (Short-term Memory):">> \o chat_history
    \o <<"User message: ">> \o m

\* a respond that saves the user message before it invokes the LLM
CiaRespondSavingFirst(self, m, docs, preferences, outcome) ==
    LET prompt == CiaPrompt(FormatContext(docs, preferences),
                            ChatHistory(self.short_term), m)
        began == [self EXCEPT !.turns = @ + 1,
                              !.short_term = SaveContext(@, m, outcome.ret)]
    IN  IF outcome.status = "raised"
        THEN [began EXCEPT !.last = [op |-> "respond", status |-> "raised",
                                     message |-> m, prompt |-> prompt, ret |-> <<>>]]
        ELSE [began EXCEPT !.last = [op |-> "respond", status |-> "returned",
                                     message |-> m, prompt |-> prompt,
                                     ret |-> outcome.ret]]

\* respond(user_message): retrieve the context, load the history, build the
\* prompt, self.llm.invoke(prompt), then save_context and return the content;
\* an exception of invoke leaves respond before save_context
CiaRespond(self, m, docs, preferences, outcome) ==
    LET prompt == CiaPrompt(FormatContext(docs, preferences),
                            ChatHistory(self.short_term), m)
        began == [self EXCEPT !.turns = @ + 1]
    IN  IF outcome.status = "raised"
        THEN [began EXCEPT !.last = [op |-> "respond", status |-> "raised",
                                     message |-> m, prompt |-> prompt, ret |-> <<>>]]
        ELSE [began EXCEPT !.short_term = SaveContext(@, m, outcome.ret),
                           !.last = [op |-> "respond", status |-> "returned",
                                     message |-> m, prompt |-> prompt,
                                     ret |-> outcome.ret]]

\* what self.llm.invoke(prompt) does: a response, or an exception
LlmOutcomes ==
    {[status |-> "returned", ret |-> r] : r \in BackendReplies}
    \cup {[status |-> "raised", ret |-> <<>>]}

\* the readings of datetime.now() at a call: the clock may have advanced
CiaClockReadings == {t \in {cia.clock, cia.clock + 1} : t <= MaxClock}

\* save_preference(key, value, category): the row is written and committed,
\* then the text is added to the vector store; add_texts may raise (it needs
\* the embedding server), which leaves the committed row
cia_save_preference(k, v, category) ==
    /\ cia.pc = "ready"
    /\ cia.saves < MaxPrefSaves
    /\ \E ts \in CiaClockReadings, added \in BOOLEAN :
           cia' = [cia EXCEPT
                     !.clock = ts,
                     !.saves = @ + 1,
                     !.preferences = InsertOrReplace(@,
                         [key |-> k, value |-> v, category |-> category,
                          timestamp |-> ts, confidence |-> 1]),
                     !.vectors = IF added THEN AddTexts(@, PrefText(k, v), category) ELSE @,
                     !.lastPref = [@ EXCEPT ![k] = PyStr(v)],
                     !.last = [op |-> "save_preference", key |-> k, value |-> v,
                               status |-> IF added THEN "returned" ELSE "raised"]]
    /\ UNCHANGED <<memVars, provVars, pc, turns, turn, io, dbm, txs>>

\* retrieve_context(query) called on its own
cia_retrieve_context(query) ==
    /\ cia.pc = "ready"
    /\ \E docs \in SimilaritySearch(cia.vectors, query, SearchK),
          preferences \in SelectPreferences(cia.preferences) :
           cia' = [cia EXCEPT !.last = [op |-> "retrieve_context", query |-> query,
                                        docs |-> docs, preferences |-> preferences,
                                        ret |-> FormatContext(docs, preferences)]]
    /\ UNCHANGED <<memVars, provVars, pc, turns, turn, io, dbm, txs>>

\* respond(user_message)
cia_respond(m) ==
    /\ cia.pc = "ready"
    /\ cia.turns < MaxTurns
    /\ \E docs \in SimilaritySearch(cia.vectors, m, SearchK),
          preferences \in SelectPreferences(cia.preferences),
          outcome \in LlmOutcomes :
           cia' = CiaRespond(cia, m, docs, preferences, outcome)
    /\ UNCHANGED <<memVars, provVars, pc, turns, turn, io, dbm, txs>>

\* ------------------------------------------- save_memory of concurrent callers
\* callers of save_memory that run at the same time, each call on the fresh
\* connection _get_connection gives it, hence in a transaction of its own
Callers == {"c1", "c2"}

IdleTx ==
    [pc |-> "idle", user_id |-> SessionUser, key |-> <<>>, value |-> <<>>, id |-> 0,
     write |-> "none", waited |-> FALSE, calls |-> 0]

\* another transaction has written the pair and not yet committed: it holds
\* the row (or the index entry of its insertion) until it ends
InFlight(ts, c) ==
    \E d \in Callers \ {c} :
        /\ ts[d].pc = "executed"
        /\ ts[d].user_id = ts[c].user_id
        /\ ts[d].key = ts[c].key

\* INSERT INTO memories ... with no ON CONFLICT clause: a duplicate pair
\* raises UniqueViolation
OnConflictRaise(conflict) == IF conflict THEN "unique_violation" ELSE "insert"

\* ... ON CONFLICT (user_id, key) DO UPDATE SET value = EXCLUDED.value: the
\* statement inserts the row, or updates the row that holds the pair
OnConflictDoUpdate(conflict) == IF conflict THEN "update" ELSE "insert"

\* transaction t after cur.execute, no other transaction holding the pair
Written(rows, t) ==
    LET w == OnConflictDoUpdate(\E r \in rows : r.user_id = t.user_id /\ r.key = t.key)
    IN  [t EXCEPT !.write = w,
                  !.pc = IF w = "unique_violation" THEN "raised" ELSE "executed"]

\* the rows of memories once transaction t has committed
ApplyWrite(rows, t) ==
    IF t.write = "insert"
    THEN rows \cup {[id |-> t.id, user_id |-> t.user_id, key |-> t.key, value |-> t.value]}
    ELSE {IF r.user_id = t.user_id /\ r.key = t.key THEN [r EXCEPT !.value = t.value] ELSE r :
              r \in rows}

\* caller c enters save_memory(u, k, v): with self._get_connection() as conn
conc_save_memory(c, u, k, v) ==
    /\ "memories" \in tables
    /\ txs[c].pc \in {"idle", "returned", "raised"}
    /\ txs[c].calls < MaxCalls
    /\ txs' = [txs EXCEPT ![c] = [IdleTx EXCEPT !.pc = "connected", !.user_id = u,
                                                !.key = k, !.value = v,
                                                !.calls = txs[c].calls + 1]]
    /\ savedBy' = savedBy \cup {<<u, k, v>>}
    /\ UNCHANGED <<tables, memories, memories_id_seq, interactions, now, result,
                   lastSaved, loggedBy>>
    /\ UNCHANGED <<provVars, pc, turns, turn, io, dbm, cia>>

\* cur.execute(INSERT ... ON CONFLICT ...): the id default is taken from the
\* sequence, then the statement writes, or waits for the transaction that
\* holds the pair
conc_execute(c) ==
    /\ txs[c].pc = "connected"
    /\ memories_id_seq' = memories_id_seq + 1
    /\ \E t \in {[txs[c] EXCEPT !.id = memories_id_seq + 1]} :
           txs' = [txs EXCEPT ![c] = IF InFlight(txs, c)
                                     THEN [t EXCEPT !.pc = "waiting", !.waited = TRUE]
                                     ELSE Written(memories, t)]
    /\ UNCHANGED <<tables, memories, interactions, now, result, lastSaved, savedBy,
                   loggedBy>>
    /\ UNCHANGED <<provVars, pc, turns, turn, io, dbm, cia>>

\* the transaction c waited for has ended: the statement goes on
conc_resume(c) ==
    /\ txs[c].pc = "waiting"
    /\ ~InFlight(txs, c)
    /\ txs' = [txs EXCEPT ![c] = Written(memories, txs[c])]
    /\ UNCHANGED <<memVars, provVars, pc, turns, turn, io, dbm, cia>>

\* the with block of the connection ends and conn.commit(): the write of c
\* becomes visible and save_memory returns
conc_commit(c) ==
    /\ txs[c].pc = "executed"
    /\ memories' = ApplyWrite(memories, txs[c])
    /\ lastSaved' = [lastSaved EXCEPT ![<<txs[c].user_id, txs[c].key>>] = PyStr(txs[c].value)]
    /\ result' = [op |-> "save_memory", user_id |-> txs[c].user_id, key |-> txs[c].key,
                  value |-> txs[c].value]
    /\ txs' = [txs EXCEPT ![c].pc = "returned"]
    /\ UNCHANGED <<tables, memories_id_seq, interactions, now, savedBy, loggedBy>>
    /\ UNCHANGED <<provVars, pc, turns, turn, io, dbm, cia>>

\* --------------------------------------------------- database infrastructure
\* _wait_for_db(self, retries=10, delay=2): the defaults start_container uses
DefaultRetries == 10
DefaultDelay == 2

\* _get_db_url with the defaults of __init__
DbUrl ==
    <<"postgresql://", "postgres", ":", "postgres", "@localhost:", "5432", "/",
      "customer_memory">>

\* the states a container of the name can be found in, and of its server
ContainerStates == {"absent", "exited", "running"}
ServerStates == {"down", "up"}

\* PostgresManager(): the object, beside the container and server it will find
PostgresManagerInit(container, db) ==
    [pc |-> "idle", container |-> container, db |-> db,
     retries |-> 0, delay |-> 0, i |-> 0,
     attempts |-> 0, connected |-> FALSE, slept |-> 0, url |-> PyNone]

\* _wait_for_db is entered: for i in range(retries); an empty range falls
\* through to the end of the function
WaitForDbEnter(self, retries, delay) ==
    [self EXCEPT !.retries = retries, !.delay = delay, !.i = 0,
                 !.pc = IF retries > 0 THEN "wait" ELSE "waited"]

\* an attempt whose last failure is swallowed: the wait ends without raising
WaitForDbAttemptGivingUp(self, ok) ==
    LET a == [self EXCEPT !.attempts = @ + 1]
    IN  IF ok THEN [a EXCEPT !.connected = TRUE, !.pc = "waited"]
        ELSE IF self.i < self.retries - 1
             THEN [a EXCEPT !.slept = @ + self.delay, !.i = @ + 1]
             ELSE [a EXCEPT !.pc = "waited"]

\* one iteration of the loop of _wait_for_db: psycopg2.connect(url) succeeds
\* (return) or raises OperationalError (sleep and go on, or raise on the last)
WaitForDbAttempt(self, ok) ==
    LET a == [self EXCEPT !.attempts = @ + 1]
    IN  IF ok THEN [a EXCEPT !.connected = TRUE, !.pc = "waited"]
        ELSE IF self.i < self.retries - 1
             THEN [a EXCEPT !.slept = @ + self.delay, !.i = @ + 1]
             ELSE [a EXCEPT !.pc = "raised"]

\* start_container: return self._get_db_url()
StartContainerReturn(self) == [self EXCEPT !.pc = "returned", !.url = PyStr(DbUrl)]

\* where main goes on from a state of start_container: its next statement
\* when the url was returned, sys.exit(1) when the call raised
MainAfterStart(self) ==
    IF self.pc = "returned" THEN "connect"
    ELSE IF self.pc = "raised" THEN "exited"
    ELSE "start_db"

\* main: full_db_url = db_manager.start_container(), up to the first attempt
\* to connect: the container is found running, started or created, or the
\* Docker call raises
main_start_container ==
    /\ pc = "start_db"
    /\ dbm.pc = "idle"
    /\ \E docker_ok \in BOOLEAN :
           \E w \in {IF docker_ok
                     THEN WaitForDbEnter([dbm EXCEPT !.container = "running"],
                                         DefaultRetries, DefaultDelay)
                     ELSE [dbm EXCEPT !.pc = "raised"]} :
               \E d \in {IF w.pc = "waited" THEN StartContainerReturn(w) ELSE w} :
                   /\ dbm' = d
                   /\ pc' = MainAfterStart(d)
    /\ UNCHANGED <<memVars, provVars, turns, turn, io, txs, cia>>

\* main, inside start_container: one connection attempt of _wait_for_db
main_wait_for_db ==
    /\ pc = "start_db"
    /\ dbm.pc = "wait"
    /\ \E ok \in {dbm.db = "up", FALSE} :
           \E w \in {WaitForDbAttempt(dbm, ok)} :
               \E d \in {IF w.pc = "waited" THEN StartContainerReturn(w) ELSE w} :
                   /\ dbm' = d
                   /\ pc' = MainAfterStart(d)
    /\ UNCHANGED <<memVars, provVars, turns, turn, io, txs, cia>>

\* the server in the running container begins to accept connections
db_server_ready ==
    /\ pc \in {"start_db", "library"}
    /\ dbm.container = "running"
    /\ dbm.db = "down"
    /\ dbm' = [dbm EXCEPT !.db = "up"]
    /\ UNCHANGED <<memVars, provVars, pc, turns, turn, io, txs, cia>>

\* the arguments _wait_for_db is called with
RetriesGiven == (0..MaxRetries) \cup {DefaultRetries}
DelaysGiven == {0, 1, DefaultDelay}

\* _wait_for_db(retries, delay) called on its own, the container running
wait_for_db(retries, delay) ==
    /\ pc = "library"
    /\ dbm.pc = "idle"
    /\ dbm' = WaitForDbEnter(dbm, retries, delay)
    /\ UNCHANGED <<memVars, provVars, pc, turns, turn, io, txs, cia>>

\* one iteration of its loop
wait_for_db_attempt ==
    /\ pc = "library"
    /\ dbm.pc = "wait"
    /\ \E ok \in {dbm.db = "up", FALSE} : dbm' = WaitForDbAttempt(dbm, ok)
    /\ UNCHANGED <<memVars, provVars, pc, turns, turn, io, txs, cia>>

\* main: memory = PostgresMemoryDB(full_db_url)
main_connect_memory ==
    /\ pc = "connect"
    /\ memories' = CreateTableIfNotExists(tables, "memories", memories, {})
    /\ interactions' = CreateTableIfNotExists(tables, "interactions", interactions, <<>>)
    /\ tables' = CreateTablesIfNotExist(tables)
    /\ pc' = "select"
    /\ UNCHANGED <<memories_id_seq, now, result, lastSaved, savedBy, loggedBy>>
    /\ UNCHANGED <<provVars, turns, turn, io, dbm, txs, cia>>

\* main: the connection fails; "Failed to connect to memory", sys.exit(1)
main_connect_fails ==
    /\ pc = "connect"
    /\ pc' = "exited"
    /\ UNCHANGED <<memVars, provVars, turns, turn, io, dbm, txs, cia>>

\* what CURRENT_TIMESTAMP reads at a statement of the session: the reading of
\* the statement before it, or a later one
ClockReadings == {t \in {now, now + 1} : t <= MaxClock}

\* a turn that has ended: the locals of respond are gone, what the caller saw
\* and the record of the steps remain
Ended(t) == [t EXCEPT !.history = <<>>, !.facts = {}, !.prompt = <<>>]

\* main: a chat line is read; reply = assistant.respond(user_id, user_input)
main_input_chat(u, message) ==
    /\ pc = "input"
    /\ turns < MaxTurns
    /\ turns' = turns + 1
    /\ turn' = [status |-> "running", user_id |-> u, message |-> message,
                log0 |-> Len(SelectInteractions(interactions, u)), history |-> <<>>, facts |-> {},
                prompt |-> <<>>, reply |-> <<>>, gen |-> "none", steps |-> <<>>]
    /\ pc' = RespondSteps[1]
    /\ UNCHANGED <<memVars, provVars, dbm, txs, cia>>

\* respond, step 1: memory.log_interaction(user_id, "user", message)
respond_log_inbound ==
    /\ pc = "log_inbound"
    /\ \E ts \in ClockReadings :
           /\ now' = ts
           /\ interactions' = InsertInteraction(interactions, turn.user_id, "user",
                                                turn.message, ts)
    /\ loggedBy' = loggedBy \cup {<<turn.user_id, "user", turn.message>>}
    /\ turn' = [turn EXCEPT !.steps = Append(@, "log_inbound")]
    /\ pc' = StepAfter("log_inbound")
    /\ UNCHANGED <<tables, memories, memories_id_seq, result, lastSaved, savedBy>>
    /\ UNCHANGED <<provVars, turns, io, dbm, txs, cia>>

\* respond, step 2: history = memory.get_recent_history(user_id, limit=5)
respond_read_history ==
    /\ pc = "read_history"
    /\ \E ret \in GetRecentHistoryResults(interactions, turn.user_id, DefaultLimit) :
           turn' = [turn EXCEPT !.history = ret, !.steps = Append(@, "read_history")]
    /\ pc' = StepAfter("read_history")
    /\ UNCHANGED <<memVars, provVars, turns, io, dbm, txs, cia>>

\* respond, step 2: facts = memory.get_all_memories(user_id), and the prompt
respond_read_facts ==
    /\ pc = "read_facts"
    /\ LET facts == GetAllMemoriesDict(memories, turn.user_id)
       IN  turn' = [turn EXCEPT !.facts = facts,
                                !.prompt = FormatPrompt(facts, turn.message),
                                !.steps = Append(@, "read_facts")]
    /\ pc' = StepAfter("read_facts")
    /\ UNCHANGED <<memVars, provVars, turns, io, dbm, txs, cia>>

\* respond, step 3: reply = provider.generate(prompt, history); when it
\* raises, the exception leaves respond and main reports "An error occurred"
respond_generate ==
    /\ pc = "generate"
    /\ turn.gen = "none"
    /\ \E o \in Generate(assistant.provider, turn.prompt, turn.history) :
           \/ /\ o.status = "returned"
              /\ turn' = [turn EXCEPT !.reply = o.ret, !.gen = "returned",
                                      !.steps = Append(@, "generate")]
              /\ pc' = StepAfter("generate")
              /\ io' = io
           \/ /\ o.status = "raised"
              /\ turn' = Ended([turn EXCEPT !.status = "raised", !.gen = "raised",
                                            !.steps = Append(@, "generate")])
              /\ pc' = "input"
              /\ io' = [io EXCEPT !.out = "error"]
    /\ UNCHANGED <<memVars, provVars, turns, dbm, txs, cia>>

\* the provider is a vendor adapter holding a key: generate goes to the
\* vendor's client (chat.completions.create, messages.create, send_message)
OnBackend(self) == self.cls \in VendorClasses /\ Truthy(self.api_key)

\* respond, step 3, when the vendor's client neither returns nor raises: the
\* adapter passes no timeout and sets no timer, so generate stays in the call
respond_generate_hangs ==
    /\ pc = "generate"
    /\ turn.gen = "none"
    /\ OnBackend(assistant.provider)
    /\ turn' = [turn EXCEPT !.gen = "hung"]
    /\ UNCHANGED <<memVars, provVars, pc, turns, io, dbm, txs, cia>>

\* respond, step 4: memory.log_interaction(user_id, "assistant", reply)
respond_log_outbound ==
    /\ pc = "log_outbound"
    /\ \E ts \in ClockReadings :
           /\ now' = ts
           /\ interactions' = InsertInteraction(interactions, turn.user_id, "assistant",
                                                turn.reply, ts)
    /\ loggedBy' = loggedBy \cup {<<turn.user_id, "assistant", turn.reply>>}
    /\ turn' = [turn EXCEPT !.steps = Append(@, "log_outbound")]
    /\ pc' = StepAfter("log_outbound")
    /\ UNCHANGED <<tables, memories, memories_id_seq, result, lastSaved, savedBy>>
    /\ UNCHANGED <<provVars, turns, io, dbm, txs, cia>>

\* respond, step 5: the reply is returned and main prints it
respond_return ==
    /\ pc = "return"
    /\ turn' = Ended([turn EXCEPT !.status = "returned",
                                  !.steps = Append(@, "return")])
    /\ pc' = "input"
    /\ io' = [io EXCEPT !.out = "reply"]
    /\ UNCHANGED <<memVars, provVars, turns, dbm, txs, cia>>

\* a memory-layer call of respond cannot connect (psycopg2.connect raises):
\* the exception leaves respond and main reports "An error occurred"
respond_storage_failure ==
    /\ pc \in {"log_inbound", "read_history", "read_facts", "log_outbound"}
    /\ turn' = Ended([turn EXCEPT !.status = "raised"])
    /\ pc' = "input"
    /\ io' = [io EXCEPT !.out = "error"]
    /\ UNCHANGED <<memVars, provVars, turns, dbm, txs, cia>>

\* a manual save that also records the command in the interaction log
main_input_save_logged(u, k, v) ==
    /\ pc = "input"
    /\ memories_id_seq < MaxSessionSaves
    /\ memories' = InsertOnConflictUpdate(memories, memories_id_seq + 1, u, k, v)
    /\ memories_id_seq' = memories_id_seq + 1
    /\ lastSaved' = [p \in DOMAIN lastSaved \cup {<<u, k>>} |->
                         IF p = <<u, k>> THEN PyStr(v) ELSE lastSaved[p]]
    /\ savedBy' = savedBy \cup {<<u, k, v>>}
    /\ interactions' = InsertInteraction(interactions, u, "user", k \o v, now)
    /\ UNCHANGED <<tables, now, result, loggedBy>>
    /\ UNCHANGED <<provVars, pc, turns, turn, dbm, txs, cia>>

\* main: a line "save <key> <value>" is read;
\* assistant.save_memory(user_id, key, value) is memory.save_memory
main_input_save(u, k, v) ==
    /\ pc = "input"
    /\ memories_id_seq < MaxSessionSaves
    /\ memories' = InsertOnConflictUpdate(memories, memories_id_seq + 1, u, k, v)
    /\ memories_id_seq' = memories_id_seq + 1
    /\ lastSaved' = [p \in DOMAIN lastSaved \cup {<<u, k>>} |->
                         IF p = <<u, k>> THEN PyStr(v) ELSE lastSaved[p]]
    /\ savedBy' = savedBy \cup {<<u, k, v>>}
    /\ UNCHANGED <<tables, interactions, now, result, loggedBy>>
    /\ UNCHANGED <<provVars, pc, turns, turn, dbm, txs, cia>>

\* main: "exit" or "quit" is read, or the input is interrupted
main_input_exit ==
    /\ pc = "input"
    /\ pc' = "exited"
    /\ UNCHANGED <<memVars, provVars, turns, turn, dbm, txs, cia>>

\* ------------------------------------------------------------ session input
\* the longest input main hands on (len(user_input) > 2000 is rejected)
MaxInputLen == 2000

\* characters str.strip() removes
Whitespace == {" ", "\t", "\n"}

RECURSIVE FirstKept(_, _)
\* the first position from i on that holds no whitespace, or Len(str) + 1
FirstKept(str, i) ==
    IF i > Len(str) \/ str[i] \notin Whitespace THEN i ELSE FirstKept(str, i + 1)

RECURSIVE LastKept(_, _)
\* the last position up to i that holds no whitespace, or 0
LastKept(str, i) ==
    IF i < 1 \/ str[i] \notin Whitespace THEN i ELSE LastKept(str, i - 1)

\* str.strip(): the text without leading and trailing whitespace
Strip(str) == SubSeq(str, FirstKept(str, 1), LastKept(str, Len(str)))

\* str.startswith(prefix)
StartsWith(str, prefix) ==
    /\ Len(str) >= Len(prefix)
    /\ SubSeq(str, 1, Len(prefix)) = prefix

RECURSIVE SplitEvery(_, _, _)
\* str.split(sep): a split at every separator, whatever maxsplit
SplitEvery(str, sep, maxsplit) ==
    LET at == {i \in 1..Len(str) : str[i] = sep}
    IN  IF at = {} THEN <<str>>
        ELSE LET i == CHOOSE a \in at : \A b \in at : a <= b
             IN  <<SubSeq(str, 1, i - 1)>>
                 \o SplitEvery(SubSeq(str, i + 1, Len(str)), sep, maxsplit)

RECURSIVE SplitMax(_, _, _)
\* str.split(sep, maxsplit) for a separator of one character: the parts
\* between the first maxsplit separators, the last part holding the rest
SplitMax(str, sep, maxsplit) ==
    LET at == {i \in 1..Len(str) : str[i] = sep}
    IN  IF maxsplit = 0 \/ at = {} THEN <<str>>
        ELSE LET i == CHOOSE a \in at : \A b \in at : a <= b
             IN  <<SubSeq(str, 1, i - 1)>>
                 \o SplitMax(SubSeq(str, i + 1, Len(str)), sep, maxsplit - 1)

Str_exit == <<"e", "x", "i", "t">>
Str_quit == <<"q", "u", "i", "t">>
\* "save ", the prefix of the manual save command
Str_save_ == <<"s", "a", "v", "e", " ">>

\* lines typed at the prompt
Line_hello == <<"h", "e", "l", "l", "o">>
Line_hi == <<"h", "i">>
Line_save_hobby_chess == <<"s", "a", "v", "e", " ", "h", "o", "b", "b", "y", " ", "c", "h", "e", "s", "s">>
Line_save_hobby_go == <<"s", "a", "v", "e", " ", "h", "o", "b", "b", "y", " ", "g", "o">>
\* the lines of a plain session: chat, manual saves, exit
SessionLines ==
    {Line_hello, Line_hi, Line_save_hobby_chess, Line_save_hobby_go, Str_exit}

\* a line of n characters
LineOfLength(n) == [i \in 1..n |-> "x"]

\* lines of every kind the loop tells apart: empty and blank lines, padded
\* chat, commands in upper case, saves with spaces in the value, with too few
\* words and with two spaces, and a line over the length bound
LoopLines ==
    {<<>>, <<" ", " ">>, <<" ", "h", "i", " ">>, <<"Q", "U", "I", "T">>,
     <<"S", "a", "v", "e", " ", "h", "o", "b", "b", "y", " ", "g", "o", " ", "f", "i", "s", "h">>,
     <<"s", "a", "v", "e", " ", "h", "o", "b", "b", "y">>,
     <<"s", "a", "v", "e">>,
     <<"s", "a", "v", "e", " ", " ", "g", "o">>,
     LineOfLength(MaxInputLen + 1)}

NoIo == [line |-> <<>>, branch |-> "none", out |-> "none"]

\* main: `continue`, or a message is printed and the loop goes on
main_input_continue ==
    /\ pc = "input"
    /\ UNCHANGED <<memVars, provVars, pc, turns, turn, dbm, txs, cia>>

\* main: assistant.save_memory raises (the store cannot be reached); the
\* exception is caught by `except Exception` and the loop goes on
main_input_save_fails ==
    /\ pc = "input"
    /\ UNCHANGED <<memVars, provVars, pc, turns, turn, dbm, txs, cia>>

\* a loop body that does not check the length of the input
main_loop_body_unbounded(user_input, lowered, parts) ==
    LET said(branch, out) ==
            io' = [line |-> user_input, branch |-> branch, out |-> out]
    IN  IF user_input = <<>>
        THEN main_input_continue /\ said("empty", "none")
        ELSE IF lowered \in {Str_exit, Str_quit}
        THEN main_input_exit /\ said("exit", "goodbye")
        ELSE IF StartsWith(lowered, Str_save_)
        THEN IF Len(parts) = 3
             THEN \/ main_input_save(SessionUser, parts[2], parts[3]) /\ said("save", "none")
                  \/ main_input_save_fails /\ said("save", "error")
             ELSE main_input_continue /\ said("usage", "usage")
        ELSE main_input_chat(SessionUser, user_input) /\ said("respond", "pending")

\* main: the loop body for user_input = input().strip(), its lower-case
\* form and user_input.split(" ", 2)
main_loop_body(user_input, lowered, parts) ==
    LET said(branch, out) ==
            io' = [line |-> user_input, branch |-> branch, out |-> out]
    IN  IF user_input = <<>>
        THEN main_input_continue /\ said("empty", "none")
        ELSE IF Len(user_input) > MaxInputLen
        THEN main_input_continue /\ said("too_long", "too_long")
        ELSE IF lowered \in {Str_exit, Str_quit}
        THEN main_input_exit /\ said("exit", "goodbye")
        ELSE IF StartsWith(lowered, Str_save_)
        THEN IF Len(parts) = 3
             THEN \/ main_input_save(SessionUser, parts[2], parts[3]) /\ said("save", "none")
                  \/ main_input_save_fails /\ said("save", "error")
             ELSE main_input_continue /\ said("usage", "usage")
        ELSE main_input_chat(SessionUser, user_input) /\ said("respond", "pending")

\* main: one pass of the loop for the line input() returned
main_input(raw) ==
    \E user_input \in {Strip(raw)} :
        \E lowered \in {Lower(user_input)}, parts \in {SplitMax(user_input, " ", 2)} :
            main_loop_body(user_input, lowered, parts)

\* an exception of input() that no except clause catches: main ends
main_input_eof_uncaught ==
    /\ pc = "input"
    /\ pc' = "exited"
    /\ io' = [line |-> <<>>, branch |-> "eof", out |-> "error"]
    /\ UNCHANGED <<memVars, provVars, turns, turn, dbm, txs, cia>>

\* main: input() raises EOFError (or any other Exception); it is caught by
\* `except Exception`, reported, and the loop goes on
main_input_eof ==
    /\ pc = "input"
    /\ io' = [line |-> <<>>, branch |-> "eof", out |-> "error"]
    /\ UNCHANGED <<memVars, provVars, pc, turns, turn, dbm, txs, cia>>

\* main: KeyboardInterrupt at the prompt or anywhere in the loop body, a turn
\* under way included: "Goodbye!" and break
main_interrupt ==
    /\ pc \in {"input"} \cup {RespondSteps[i] : i \in DOMAIN RespondSteps}
    /\ pc' = "exited"
    /\ turn' = IF pc = "input" THEN turn
               ELSE Ended([turn EXCEPT !.status = "interrupted"])
    /\ io' = [io EXCEPT !.branch = "interrupt", !.out = "goodbye"]
    /\ UNCHANGED <<memVars, provVars, turns, dbm, txs, cia>>

NoTurn == [status |-> "none"]

ProvIdle ==
    /\ provider = NoProvider
    /\ call = NoCall
    /\ prev = NoCall
    /\ assistant = NoAssistant
    /\ turns = 0
    /\ turn = NoTurn
    /\ io = NoIo

NoEnv == CHOOSE e \in EnvsWith({PyNone}) : \A n \in DOMAIN e : e[n] = PyNone

MemInit ==
    /\ tables = {}
    /\ memories = {}
    /\ memories_id_seq = 0
    /\ interactions = <<>>
    /\ now = 0
    /\ result = NoResult
    /\ lastSaved = [p \in Users \X Keys |-> PyNone]
    /\ savedBy = {}
    /\ loggedBy = {}

\* a memory layer used on its own: no provider is involved
MemOnlyInit ==
    /\ MemInit
    /\ dbm = NoDbm
    /\ txs = NoTxs
    /\ cia = NoCia
    /\ env = NoEnv
    /\ ProvIdle
    /\ pc = "library"

\* the fact store alone
FactsNext ==
    \/ PostgresMemoryDB_init
    \/ \E u \in Users, k \in Keys, v \in FactValues : save_memory(u, k, v)
    \/ \E u \in Users, k \in Keys : get_memory(u, k)
    \/ \E u \in Users : get_all_memories(u)

SpecFacts == MemOnlyInit /\ [][FactsNext]_vars

\* the interaction log alone
LogNext ==
    \/ PostgresMemoryDB_init
    \/ \E u \in Users, role \in Roles, content \in Msgs : log_interaction(u, role, content)
    \/ \E u \in Users, limit \in Limits : get_recent_history(u, limit)
    \/ Tick

SpecLog == MemOnlyInit /\ [][LogNext]_vars

\* the whole memory layer, every call in any interleaving, on one key and one
\* message text, within one tick of the clock (every timestamp ties)
MemNext ==
    \/ PostgresMemoryDB_init
    \/ \E u \in Users, k \in OneKey, v \in Values : save_memory(u, k, v)
    \/ \E u \in Users, k \in OneKey : get_memory(u, k)
    \/ \E u \in Users : get_all_memories(u)
    \/ \E u \in Users, role \in Roles, content \in OneMsg : log_interaction(u, role, content)
    \/ \E u \in Users, limit \in Limits : get_recent_history(u, limit)

SpecMemory == MemOnlyInit /\ [][MemNext]_vars

\* the provider adapters: construction with and without a key, then generate
ProviderInit ==
    /\ MemInit
    /\ dbm = NoDbm
    /\ txs = NoTxs
    /\ cia = NoCia
    /\ env \in EnvsWith({PyNone})
    /\ ProvIdle
    /\ pc = "library"

ProviderNext ==
    \/ \E cls \in VendorClasses, api_key \in ApiKeys : ConstructVendor(cls, api_key)
    \/ ConstructMock
    \/ \E prompt \in OneMsg, context \in ContextsOver(Msgs) : generate(prompt, context)

SpecProvider == ProviderInit /\ [][ProviderNext]_vars

\* the mock provider called again and again
MockSpecInit ==
    /\ MemInit
    /\ dbm = NoDbm
    /\ txs = NoTxs
    /\ cia = NoCia
    /\ env = NoEnv
    /\ provider = MockInit.obj
    /\ call = NoCall
    /\ prev = NoCall
    /\ assistant = NoAssistant
    /\ turns = 0
    /\ turn = NoTurn
    /\ io = NoIo
    /\ pc = "library"

MockNext ==
    \E prompt \in Prompts, context \in ContextsOfUser : generate_again(prompt, context)

SpecMock == MockSpecInit /\ [][MockNext]_vars

\* main's choice of the provider, in every environment
SelectInit ==
    /\ MemInit
    /\ dbm = NoDbm
    /\ txs = NoTxs
    /\ cia = NoCia
    /\ env \in EnvsWith(ProviderSettings)
    /\ ProvIdle
    /\ pc = "select"

SelectNext ==
    \/ main_get_provider
    \/ main_setup_assistant

SpecSelect == SelectInit /\ [][SelectNext]_vars

\* a session of main: startup, then chat turns and manual saves
SessionEnvs ==
    {e \in EnvsWith({PyNone, PyStr(Str_openai)}) :
        /\ e.ANTHROPIC_API_KEY = PyNone
        /\ e.GOOGLE_API_KEY = PyNone
        /\ e.OPENAI_API_KEY.py = "str" => Truthy(e.OPENAI_API_KEY)
        /\ e.LLM_PROVIDER = PyNone => e.OPENAI_API_KEY = PyNone}

Init ==
    /\ MemInit
    /\ dbm = NoDbm
    /\ txs = NoTxs
    /\ cia = NoCia
    /\ env \in SessionEnvs
    /\ ProvIdle
    /\ pc = "connect"

Next ==
    \/ main_connect_memory
    \/ main_connect_fails
    \/ main_get_provider
    \/ main_setup_assistant
    \/ \E raw \in SessionLines : main_input(raw)
    \/ respond_log_inbound
    \/ respond_read_history
    \/ respond_read_facts
    \/ respond_generate
    \/ respond_log_outbound
    \/ respond_return
    \/ respond_storage_failure

Spec == Init /\ [][Next]_vars

\* a session of main over lines of every kind, with the failures of input()
LoopNext ==
    \/ main_connect_memory
    \/ main_connect_fails
    \/ main_get_provider
    \/ main_setup_assistant
    \/ \E raw \in LoopLines : main_input(raw)
    \/ main_input_eof
    \/ main_interrupt
    \/ respond_log_inbound
    \/ respond_read_history
    \/ respond_read_facts
    \/ respond_generate
    \/ respond_log_outbound
    \/ respond_return
    \/ respond_storage_failure

\* the session starts with a vendor provider selected and its key set
LoopInit ==
    /\ Init
    /\ Truthy(env.OPENAI_API_KEY)

SpecLoop == LoopInit /\ [][LoopNext]_vars

\* the startup of main: the database infrastructure, then the memory layer
StartInit ==
    /\ MemInit
    /\ env \in SessionEnvs
    /\ ProvIdle
    /\ pc = "start_db"
    /\ \E container \in ContainerStates, db \in ServerStates :
           /\ db = "up" => container = "running"
           /\ dbm = PostgresManagerInit(container, db)
    /\ txs = NoTxs
    /\ cia = NoCia

StartNext ==
    \/ main_start_container
    \/ main_wait_for_db
    \/ db_server_ready
    \/ main_connect_memory
    \/ main_connect_fails
    \/ main_get_provider
    \/ main_setup_assistant

SpecStart == StartInit /\ [][StartNext]_vars

\* a session whose provider calls may hang. The steps of main and of respond
\* are taken when they can be (the process runs); nothing obliges the user to
\* type, the store to fail or the vendor to stay silent
TurnsNext ==
    \/ Next
    \/ respond_generate_hangs

ProgramFairness ==
    /\ WF_vars(main_connect_memory)
    /\ WF_vars(main_get_provider)
    /\ WF_vars(main_setup_assistant)
    /\ WF_vars(respond_log_inbound)
    /\ WF_vars(respond_read_history)
    /\ WF_vars(respond_read_facts)
    /\ WF_vars(respond_generate)
    /\ WF_vars(respond_log_outbound)
    /\ WF_vars(respond_return)

SpecTurns == Init /\ [][TurnsNext]_vars /\ ProgramFairness

\* the same session with a vendor that always answers or fails
SpecTurnsAnswered == Init /\ [][Next]_vars /\ ProgramFairness

\* a fact stored before the concurrent callers start
StoredFact == [id |-> 1, user_id |-> SessionUser, key |-> <<"h", "o", "b", "b", "y">>,
               value |-> <<"chess">>]

\* the memory layer constructed, the fact store empty or holding one fact,
\* and no caller inside save_memory
ConcInit ==
    /\ tables = TableNames
    /\ memories \in {{}, {StoredFact}}
    /\ memories_id_seq = Cardinality(memories)
    /\ interactions = <<>>
    /\ now = 0
    /\ result = NoResult
    /\ lastSaved = [p \in Users \X Keys |->
                       IF \E r \in memories : p = <<r.user_id, r.key>>
                       THEN PyStr(StoredFact.value) ELSE PyNone]
    /\ savedBy = {<<r.user_id, r.key, r.value>> : r \in memories}
    /\ loggedBy = {}
    /\ env = NoEnv
    /\ ProvIdle
    /\ pc = "library"
    /\ dbm = NoDbm
    /\ txs = [c \in Callers |-> IdleTx]
    /\ cia = NoCia

ConcNext ==
    \E c \in Callers :
        \/ \E u \in Users, k \in Keys, v \in Values : conc_save_memory(c, u, k, v)
        \/ conc_execute(c)
        \/ conc_resume(c)
        \/ conc_commit(c)

SpecConc == ConcInit /\ [][ConcNext]_vars

\* _wait_for_db alone, with every number of retries and delay
WaitInit ==
    /\ MemInit
    /\ env = NoEnv
    /\ ProvIdle
    /\ pc = "library"
    /\ dbm \in {PostgresManagerInit("running", db) : db \in ServerStates}
    /\ txs = NoTxs
    /\ cia = NoCia

WaitNext ==
    \/ \E retries \in RetriesGiven, delay \in DelaysGiven : wait_for_db(retries, delay)
    \/ wait_for_db_attempt
    \/ db_server_ready

SpecWait == WaitInit /\ [][WaitNext]_vars

\* a CustomerIntelligenceAgent used on its own
AgentInit ==
    /\ MemInit
    /\ env = NoEnv
    /\ ProvIdle
    /\ pc = "library"
    /\ dbm = NoDbm
    /\ txs = NoTxs
    /\ cia = CiaInit

AgentNext ==
    \/ \E k \in Keys, v \in Values, category \in Categories : cia_save_preference(k, v, category)
    \/ \E query \in Queries : cia_retrieve_context(query)
    \/ \E m \in Queries : cia_respond(m)

SpecAgent == AgentInit /\ [][AgentNext]_vars

\* ------------------------------------------------------------------ claims
RowsFor(u, k) == {r \in memories : r.user_id = u /\ r.key = k}

\* C1: after any sequence of save_memory calls the memories table holds at
\* most one row per (user_id, key), none for a pair never saved, and for a
\* saved pair exactly one row whose value is that of the most recent
\* save_memory call for the pair.
C1_UpsertLastWriteWins ==
    \A u \in Users, k \in Keys :
        /\ Cardinality(RowsFor(u, k)) <= 1
        /\ lastSaved[<<u, k>>].py = "None" => RowsFor(u, k) = {}
        /\ lastSaved[<<u, k>>].py = "str" =>
               /\ Cardinality(RowsFor(u, k)) = 1
               /\ \A r \in RowsFor(u, k) : r.value = lastSaved[<<u, k>>].val

\* upsert(u, k, v1) then upsert(u, k, v2), v1 # v2, has just completed
C1_Witness ==
    /\ result.op = "save_memory"
    /\ \E v \in Values :
           /\ v # result.value
           /\ <<result.user_id, result.key, v>> \in savedBy
    /\ \E r \in memories :
           r.user_id = result.user_id /\ r.key = result.key /\ r.value = result.value

\* the last Min(k, N) of the N entries logged for u, in append order
LastEntries(rows, u, k) ==
    LET mine == SelectInteractions(rows, u)
    IN  SubSeq(mine, Len(mine) - Min(k, Len(mine)) + 1, Len(mine))

\* C2: get_recent_history(u, k) returns exactly the last min(k, N) entries
\* logged for u, oldest first, in append order, also when entries carry the
\* same timestamp; with N = 0 it returns the empty sequence.
C2_RecentHistoryIsLastEntries ==
    result.op = "get_recent_history" =>
        result.ret = ProjectRows(LastEntries(interactions, result.user_id, result.limit))

\* C3: whatever a read call made with user_id = B returns was written with
\* user_id = B: a fact B saved, an interaction logged for B; nothing that only
\* another user wrote is returned.
C3_Partitioning ==
    /\ (result.op = "get_memory" /\ result.ret.py = "str") =>
           <<result.user_id, result.key, result.ret.val>> \in savedBy
    /\ result.op = "get_all_memories" =>
           \A kv \in result.ret : <<result.user_id, kv[1], kv[2]>> \in savedBy
    /\ result.op = "get_recent_history" =>
           \A i \in 1..Len(result.ret) :
               <<result.user_id, result.ret[i].role, result.ret[i].content>> \in loggedBy

\* B reads its history, which is not empty, after A saved a fact and logged an
\* interaction that B never wrote
C3_Witness ==
    /\ result.op = "get_recent_history"
    /\ result.user_id = "B"
    /\ Len(result.ret) > 0
    /\ \E w \in loggedBy : w[1] = "A" /\ <<"B", w[2], w[3]>> \notin loggedBy
    /\ \E w \in savedBy : w[1] = "A" /\ <<"B", w[2], w[3]>> \notin savedBy

\* the log of the user of the turn
TurnLog == SelectInteractions(interactions, turn.user_id)

\* entry n of the turn's user holds the given role and content
TurnLogHas(n, role, content) ==
    /\ Len(TurnLog) >= n
    /\ TurnLog[n].user_id = turn.user_id
    /\ TurnLog[n].role = role
    /\ TurnLog[n].content = content

\* C4: when the provider raised during generate, the turn has ended with the
\* user's message logged (role user) as the one entry the turn added: no
\* assistant entry was logged for the turn.
C4_NoAssistantLogOnFailure ==
    (turn.status # "none" /\ turn.gen = "raised") =>
        /\ turn.status = "raised"
        /\ pc \in {"input", "exited"}
        /\ Len(TurnLog) = turn.log0 + 1
        /\ TurnLogHas(turn.log0 + 1, "user", turn.message)

\* the provider raised in a turn that followed a successful one
C4_Witness ==
    /\ turn.status = "raised"
    /\ turn.gen = "raised"
    /\ turn.log0 = 2
    /\ pc = "input"

\* C5: a respond turn that returned a reply added exactly two entries to the
\* user's log: the message with role user, then the returned reply with role
\* assistant; so a first turn of a user without facts leaves a log of exactly
\* these two entries.
C5_TurnLogsUserThenAssistant ==
    turn.status = "returned" =>
        /\ Len(TurnLog) = turn.log0 + 2
        /\ TurnLogHas(turn.log0 + 1, "user", turn.message)
        /\ TurnLogHas(turn.log0 + 2, "assistant", turn.reply)

\* respond(A, "hello") returned for a user with no facts and no history
C5_Witness ==
    /\ turn.status = "returned"
    /\ turn.log0 = 0
    /\ turn.message = Line_hello
    /\ memories = {}
    /\ Len(interactions) = 2
    /\ assistant.provider.cls = "MockProvider"

\* step a of the turn was taken before its step number i
Before(a, i) == \E j \in 1..(i - 1) : turn.steps[j] = a

\* C6: within a turn the user message is appended to the log before history
\* or facts are read (the entry is in the table when they are read), and
\* generate is called only after both reads.
C6_LogInboundBeforeContext ==
    turn.status # "none" =>
        \A i \in 1..Len(turn.steps) :
            /\ turn.steps[i] \in {"read_history", "read_facts"} =>
                   /\ Before("log_inbound", i)
                   /\ TurnLogHas(turn.log0 + 1, "user", turn.message)
            /\ turn.steps[i] = "generate" =>
                   /\ Before("log_inbound", i)
                   /\ Before("read_history", i)
                   /\ Before("read_facts", i)

\* generate has been called in a turn whose history read returned entries
C6_Witness ==
    /\ pc = "log_outbound"
    /\ turn.steps = <<"log_inbound", "read_history", "read_facts", "generate">>
    /\ Len(turn.history) >= 1
    /\ turn.facts # {}

\* where main is while its loop runs: at the prompt or in a step of respond
InLoop(at) == at \in {"input"} \cup {RespondSteps[i] : i \in DOMAIN RespondSteps}

\* C11: in the session loop a failure of a turn (of respond, of a manual
\* save, of input) is caught and reported and the loop is back at its prompt;
\* the loop ends only on exit/quit or a keyboard interrupt.
C11_LoopSurvivesFailures ==
    [][/\ (turn.status = "running" /\ turn'.status = "raised") =>
              (pc' = "input" /\ io'.out = "error")
       /\ (pc = "input" /\ io'.branch \in {"save", "eof"} /\ io'.out = "error") =>
              pc' = "input"
       /\ (InLoop(pc) /\ pc' = "exited") =>
              (io'.out = "goodbye" /\ io'.branch \in {"exit", "interrupt"})]_vars

\* a turn is under way after a turn that failed
C11_Witness ==
    /\ turns = 2
    /\ turn.status = "running"
    /\ Len(interactions) = 2
    /\ interactions[1].role = "user"
    /\ interactions[2].role = "user"

RECURSIVE Words(_)
\* the words of a text: its maximal runs of characters that are not whitespace
Words(str) ==
    IF str = <<>> THEN <<>>
    ELSE IF Head(str) \in Whitespace THEN Words(Tail(str))
    ELSE LET n == FirstKept(str, 1)
             stop == CHOOSE i \in 1..(Len(str) + 1) :
                         /\ i > Len(str) \/ str[i] \in Whitespace
                         /\ \A j \in 1..(i - 1) : str[j] \notin Whitespace
         IN  <<SubSeq(str, 1, stop - 1)>> \o Words(SubSeq(str, stop, Len(str)))

\* the line is a manual-save command: its first word is save
IsSaveCommand(line) ==
    /\ Len(line) <= MaxInputLen
    /\ Words(line) # <<>>
    /\ Lower(Words(line)[1]) = <<"s", "a", "v", "e">>

\* C12: a manual-save command with fewer than a key and a value after the
\* word save gets the usage hint, and nothing else is done for it.
C12_MalformedSaveRejected ==
    (IsSaveCommand(io.line) /\ Len(Words(io.line)) < 3 /\ io.branch # "interrupt") =>
        (io.branch = "usage" /\ io.out = "usage")

\* C13: a manual save leaves the interaction log and the turn record (no
\* generate) as they are, and no step of a respond turn changes a stored fact.
C13_SaveAndRespondAreSeparate ==
    [][/\ (memories' # memories \/ memories_id_seq' # memories_id_seq) =>
              /\ pc = "input"
              /\ interactions' = interactions
              /\ loggedBy' = loggedBy
              /\ turn' = turn
              /\ turns' = turns
              /\ provVars' = provVars
       /\ (pc \in {RespondSteps[i] : i \in DOMAIN RespondSteps}) =>
              (memories' = memories /\ memories_id_seq' = memories_id_seq)]_vars

\* a fact was saved by hand after a turn had been logged
C13_Witness ==
    /\ io.branch = "save"
    /\ io.out = "none"
    /\ memories # {}
    /\ Len(interactions) = 2
    /\ pc = "input"

\* C20: the loop pass that reads a line longer than the bound reports it, changes
\* nothing stored or logged and starts no turn; no message of a turn and no
\* stored fact is longer than the bound.
C20_LongInputRejected ==
    [][/\ (Len(io'.line) > MaxInputLen /\ io'.branch # "interrupt") =>
              /\ io'.branch = "too_long"
              /\ io'.out = "too_long"
              /\ UNCHANGED <<memVars, provVars, pc, turns, turn>>
       /\ turn'.status # "none" => Len(turn'.message) <= MaxInputLen
       /\ \A r \in memories' : Len(r.key) + Len(r.value) <= MaxInputLen
       /\ \A i \in 1..Len(interactions') :
              interactions'[i].role = "user" =>
                  Len(interactions'[i].content) <= MaxInputLen]_vars

\* a line of 2001 characters was rejected in a session that has logged a turn
C20_Witness ==
    /\ io.branch = "too_long"
    /\ Len(io.line) = MaxInputLen + 1
    /\ pc = "input"
    /\ Len(interactions) = 2

\* C14: the interaction log is append-only: no memory-layer operation, the
\* construction of a new PostgresMemoryDB included, removes, changes or
\* reorders an entry logged before.
C14_LogIsAppendOnly ==
    [][/\ Len(interactions') >= Len(interactions)
       /\ \A i \in 1..Len(interactions) : interactions'[i] = interactions[i]]_vars

\* a memory layer was constructed again on a store whose log holds entries of
\* both roles
C14_Witness ==
    /\ result.op = "init"
    /\ Len(interactions) = MaxLog
    /\ interactions[1].role # interactions[Len(interactions)].role

\* the facts saved last for user u, as the items of a dict
LastSavedItems(u) ==
    {<<p[2], lastSaved[p].val>> :
        p \in {q \in DOMAIN lastSaved : q[1] = u /\ lastSaved[q].py = "str"}}

\* C15: get_all_memories(u) returns exactly the keys saved for u with their
\* most recently saved values, and get_memory(u, k) returns the most recent
\* value of a saved key and None exactly when no fact (u, k) exists.
C15_ReadsAgreeWithLastWrites ==
    /\ result.op = "get_all_memories" => result.ret = LastSavedItems(result.user_id)
    /\ result.op = "get_memory" =>
           /\ result.ret = lastSaved[<<result.user_id, result.key>>]
           /\ result.ret.py = "None" <=>
                  ~\E r \in memories : r.user_id = result.user_id /\ r.key = result.key

\* save_memory(A, hobby, chess), save_memory(A, hobby, go), then
\* get_all_memories(A) returned {hobby: go}
C15_Witness ==
    /\ {<<"A", <<"h", "o", "b", "b", "y">>, <<"chess">>>>,
        <<"A", <<"h", "o", "b", "b", "y">>, <<"go">>>>} \subseteq savedBy
    /\ result.op = "get_all_memories"
    /\ result.user_id = "A"
    /\ result.ret = {<<<<"h", "o", "b", "b", "y">>, <<"go">>>>}

\* C17: constructing the memory layer leaves both tables existing, and on a
\* store that already has them it changes no table, no fact and no
\* interaction.
C17_ConstructionIsIdempotent ==
    [][result'.op = "init" =>
           /\ TableNames \subseteq tables'
           /\ TableNames \subseteq tables =>
                  /\ tables' = tables
                  /\ memories' = memories
                  /\ interactions' = interactions]_vars

\* a memory layer was constructed on a store that holds a fact and an
\* interaction
C17_Witness ==
    /\ result.op = "init"
    /\ memories # {}
    /\ interactions # <<>>

\* C7: a vendor provider built with no key (no argument, no environment
\* variable) is built without raising, and every generate on it returns a
\* text starting with "Error:" without raising and without a backend request.
C7_MissingKeyDegrades ==
    /\ (/\ call.op = "construct"
        /\ call.cls \in VendorClasses
        /\ call.arg.py = "None"
        /\ Getenv(env, KeyVariable(call.cls)).py = "None") =>
           /\ call.status = "returned"
           /\ provider.cls = call.cls
           /\ provider.api_key.py = "None"
    /\ (/\ call.op = "generate"
        /\ call.self.cls \in VendorClasses
        /\ call.self.api_key.py = "None") =>
           /\ call.status = "returned"
           /\ Len(call.ret) >= 1
           /\ call.ret[1] = "Error:"
           /\ call.request = NoRequest

\* generate has returned on a Gemini provider built without any key
C7_Witness ==
    /\ call.op = "generate"
    /\ call.self.cls = "GeminiProvider"
    /\ call.self.api_key.py = "None"
    /\ env.GOOGLE_API_KEY.py = "None"
    /\ call.status = "returned"
    /\ Len(call.context) = 2

\* text contains sub as a run of consecutive tokens
Contains(text, sub) ==
    \E i \in 0..(Len(text) - Len(sub)) : SubSeq(text, i + 1, i + Len(sub)) = sub

IsMockCall(c) == c.op = "generate" /\ c.self.cls = "MockProvider"

\* C8: MockProvider.generate never raises, its reply contains the prompt
\* verbatim, and a call with the prompt and context of the call before it
\* returns the reply that call returned.
C8_MockEchoesPrompt ==
    IsMockCall(call) =>
        /\ call.status = "returned"
        /\ Contains(call.ret, call.prompt)
        /\ (/\ IsMockCall(prev)
            /\ prev.prompt = call.prompt
            /\ prev.context = call.context) => prev.ret = call.ret

\* the mock was called twice with one two-token prompt and one context
C8_Witness ==
    /\ IsMockCall(call)
    /\ IsMockCall(prev)
    /\ prev.prompt = call.prompt
    /\ prev.context = call.context
    /\ call.prompt = <<"hi", "yo">>
    /\ Len(call.context) = 1

\* two characters equal up to the case of a letter
SameLetter(c, d) ==
    \/ c = d
    \/ \E i \in DOMAIN UpperLetters :
           {c, d} \subseteq {UpperLetters[i], LowerLetters[i]}

EqualsIgnoringCase(a, b) ==
    /\ Len(a) = Len(b)
    /\ \A i \in 1..Len(a) : SameLetter(a[i], b[i])

RecognizedNames == {Str_openai, Str_anthropic, Str_claude, Str_gemini, Str_google}

\* LLM_PROVIDER is not set, or is set to no recognized name
NotRecognized(e) ==
    \/ e.LLM_PROVIDER.py = "None"
    \/ \A n \in RecognizedNames : ~EqualsIgnoringCase(e.LLM_PROVIDER.val, n)

\* C9: when LLM_PROVIDER is missing or names no recognized provider, provider
\* selection returns, without raising, the mock provider, and main sets the
\* assistant up with it.
C9_MockIsDefault ==
    (call.op = "get_provider" /\ NotRecognized(env)) =>
        /\ call.status = "returned"
        /\ provider.cls = "MockProvider"
        /\ IF assistant.cls = "none"
           THEN ENABLED main_setup_assistant
           ELSE assistant.provider.cls = "MockProvider"

\* the assistant was set up where LLM_PROVIDER names an unknown provider
C9_Witness ==
    /\ env.LLM_PROVIDER = PyStr(<<"l", "l", "a", "m", "a">>)
    /\ call.op = "get_provider"
    /\ assistant.cls = "SmartAssistant"
    /\ assistant.provider.cls = "MockProvider"

\* the label each vendor uses for a turn of the given role
VendorLabel(cls, role) ==
    IF role = "user" THEN "user"
    ELSE IF cls = "GeminiProvider" THEN "model" ELSE "assistant"

\* the conversation turns of a backend request, as role and content
TurnsHanded(req) ==
    CASE req.api = "chat.completions.create" ->
             SelectSeq(req.messages, LAMBDA m : m.role # "system")
      [] req.api = "messages.create" -> req.messages
      [] req.api = "start_chat.send_message" ->
             [i \in 1..Len(req.history) |->
                 [role |-> req.history[i].role, content |-> req.history[i].parts[1]]]
             \o <<[role |-> "user", content |-> req.message]>>

\* C10: a vendor provider that has a key hands its backend the turns of the
\* context in their order, contents unchanged and roles given the vendor's
\* labels, followed by the prompt as the final user turn.
C10_ContextHandedInOrder ==
    (/\ call.op = "generate"
     /\ call.self.cls \in VendorClasses
     /\ Truthy(call.self.api_key)) =>
        /\ call.request.api # "none"
        /\ TurnsHanded(call.request) =
               [i \in 1..Len(call.context) |->
                   [role |-> VendorLabel(call.self.cls, call.context[i].role),
                    content |-> call.context[i].content]]
               \o <<[role |-> "user", content |-> call.prompt]>>

\* OpenAI answered a call whose context holds an assistant turn and then a
\* user turn of different contents
C10_Witness ==
    /\ call.op = "generate"
    /\ call.self.cls = "OpenAIProvider"
    /\ call.status = "returned"
    /\ Len(call.context) = 2
    /\ call.context[1].role = "assistant"
    /\ call.context[2].role = "user"
    /\ call.context[1].content # call.context[2].content


\* the facts part of C16: the context holds every stored fact of the user,
\* each as a key:value line of the prompt
ContextHoldsAllFacts ==
    /\ turn.facts = {<<r.key, r.value>> : r \in SelectMemories(memories, turn.user_id)}
    /\ \A r \in SelectMemories(memories, turn.user_id) :
           Contains(turn.prompt, r.key \o <<":">> \o r.value \o <<"\n">>)

\* C16: the context assembled for a turn holds every stored fact of the user
\* as a key:value line, and the at most 5 most recent interactions of the
\* user, oldest first.
C16_ContextIsComplete ==
    (turn.status = "running" /\ pc = "generate") =>
        /\ ContextHoldsAllFacts
        /\ Len(turn.history) <= DefaultLimit
        /\ turn.history =
               ProjectRows(LastEntries(interactions, turn.user_id, DefaultLimit))

\* the facts part alone, where the context has been assembled
C16_FactsPart ==
    (turn.status = "running" /\ pc = "generate") => ContextHoldsAllFacts


\* start_container has ended, by returning or by raising
StartEnded == dbm.pc \in {"returned", "raised"}

\* C18: start_container returns the connection string only after a
\* connection attempt has succeeded; when no attempt succeeds it raises and
\* returns no string, and main never constructs the memory layer.
C18_UrlOnlyAfterConnect ==
    /\ dbm.url # PyNone => dbm.connected /\ dbm.pc = "returned"
    /\ (StartEnded /\ ~dbm.connected) =>
           /\ dbm.pc = "raised"
           /\ dbm.url = PyNone
           /\ pc = "exited"
    /\ ~dbm.connected => tables = {} /\ pc \in {"start_db", "exited"}

\* the string was returned after failed attempts and a successful one, and
\* the memory layer was constructed with it
C18_Witness ==
    /\ dbm.pc = "returned"
    /\ dbm.attempts > 1
    /\ dbm.slept = DefaultDelay * (dbm.attempts - 1)
    /\ dbm.url = PyStr(DbUrl)
    /\ tables # {}

\* every attempt failed: start_container raised
C18_RaisedAfterAllAttempts ==
    /\ dbm.pc = "raised"
    /\ dbm.attempts = DefaultRetries
    /\ pc = "exited"


\* C19: every provider generate call is bounded: a respond turn that has
\* reached the call eventually ends, and main is at its prompt again.
C19_GenerateIsBounded ==
    (turn.status = "running" /\ pc = "generate") ~> (pc = "input")

\* every respond turn that has begun eventually ends
C19_TurnsEnd == (turn.status = "running") ~> (turn.status # "running")


\* C21: save_memory never fails on a duplicate key, also when two callers
\* save the same (user_id, key) at the same time: no call raises, the pair
\* never has more than one row, and when both calls have returned the row of
\* the pair holds the value of one of them (that of the last to commit).
C21_ConcurrentSavesBothSucceed ==
    /\ \A c \in Callers : txs[c].pc # "raised"
    /\ \A u \in Users, k \in Keys : Cardinality(RowsFor(u, k)) <= 1
    /\ \A c \in Callers : \A d \in Callers \ {c} :
           (/\ txs[c].pc = "returned"
            /\ txs[d].pc = "returned"
            /\ txs[c].user_id = txs[d].user_id
            /\ txs[c].key = txs[d].key) =>
               \E r \in memories :
                   /\ RowsFor(txs[c].user_id, txs[c].key) = {r}
                   /\ r.value \in {txs[c].value, txs[d].value}
                   /\ PyStr(r.value) = lastSaved[<<r.user_id, r.key>>]

\* two callers saved different values for one new pair, one of them waited
\* for the other, and both have returned
C21_Witness ==
    /\ \A c \in Callers : txs[c].pc = "returned"
    /\ txs["c1"].user_id = txs["c2"].user_id
    /\ txs["c1"].key = txs["c2"].key
    /\ txs["c1"].value # txs["c2"].value
    /\ \E c \in Callers : txs[c].waited
    /\ Cardinality(RowsFor(txs["c1"].user_id, txs["c1"].key)) = 1


\* _wait_for_db has ended, by returning or by raising
WaitEnded == dbm.pc \in {"waited", "raised"}

\* the attempts of _wait_for_db that failed so far
FailedAttempts == dbm.attempts - (IF dbm.connected THEN 1 ELSE 0)

\* the parts of C22 about the number of attempts and the waits
WaitCountsAndSleeps ==
    /\ dbm.attempts <= dbm.retries
    /\ dbm.connected => dbm.pc = "waited"
    /\ dbm.slept = dbm.delay * (FailedAttempts - (IF dbm.pc = "raised" THEN 1 ELSE 0))

C22_HoldsWithRetries ==
    (dbm.pc # "idle" /\ dbm.retries >= 1) =>
        /\ WaitCountsAndSleeps
        /\ WaitEnded =>
               (dbm.pc = "raised" <=> (~dbm.connected /\ FailedAttempts = dbm.retries))

\* a call with no retries returns without an attempt
C22_ReturnedWithoutAttempt ==
    dbm.pc = "waited" /\ dbm.attempts = 0 /\ ~dbm.connected


\* where the key of a save line ends: the first space after position 6
SaveKeyEnd(line) ==
    CHOOSE i \in 7..Len(line) : line[i] = " " /\ \A j \in 6..(i - 1) : line[j] # " "

\* the line has the form save <key> <value>: the word save in any case, one
\* space, a key that is a non-empty word, one space, and a non-empty rest
WellFormedSave(line) ==
    /\ Len(line) <= MaxInputLen
    /\ Len(line) >= 8
    /\ Lower(SubSeq(line, 1, 4)) = <<"s", "a", "v", "e">>
    /\ line[5] = " "
    /\ \E i \in 7..(Len(line) - 1) :
           /\ line[i] = " "
           /\ \A j \in 6..(i - 1) : line[j] \notin Whitespace

SaveKey(line) == SubSeq(line, 6, SaveKeyEnd(line) - 1)
SaveValue(line) == SubSeq(line, SaveKeyEnd(line) + 1, Len(line))

\* C23: for a line of the form save <key> <value> the loop calls save_memory
\* once, with the word after save as the key and the whole rest of the line,
\* its spaces included, as the value, and does not forward the line to
\* respond (the call may fail; no second call is made).
C23_SaveSplitsOnFirstTwoSpaces ==
    [][(WellFormedSave(io'.line) /\ io'.branch \notin {"interrupt", "eof"}) =>
           /\ io'.branch = "save"
           /\ UNCHANGED <<pc, turns, turn, interactions, loggedBy, provVars>>
           /\ \/ /\ io'.out = "none"
                 /\ memories_id_seq' = memories_id_seq + 1
                 /\ savedBy' = savedBy \cup
                        {<<SessionUser, SaveKey(io'.line), SaveValue(io'.line)>>}
                 /\ memories' = InsertOnConflictUpdate(memories, memories_id_seq + 1,
                                    SessionUser, SaveKey(io'.line), SaveValue(io'.line))
              \/ /\ io'.out = "error"
                 /\ UNCHANGED <<memories, memories_id_seq, savedBy>>]_vars

\* the line "Save hobby go fish" stored the fact hobby = "go fish"
C23_Witness ==
    /\ io.branch = "save"
    /\ io.out = "none"
    /\ WellFormedSave(io.line)
    /\ \E r \in memories :
           /\ r.user_id = SessionUser
           /\ r.key = <<"h", "o", "b", "b", "y">>
           /\ r.value = <<"g", "o", " ", "f", "i", "s", "h">>
    /\ turns = 0


\* C24: respond changes short-term memory only after the LLM invocation has
\* succeeded, by saving the user message and the reply together; a respond
\* whose invocation raises leaves short-term memory, the preferences table
\* and the vector store as they were, and no other operation touches
\* short-term memory.
C24_RespondSavesAfterInvoke ==
    [][/\ cia'.short_term # cia.short_term =>
              /\ cia'.last.op = "respond"
              /\ cia'.last.status = "returned"
              /\ cia'.short_term =
                     Append(cia.short_term,
                            [input |-> cia'.last.message, output |-> cia'.last.ret])
       /\ cia'.turns # cia.turns =>
              /\ cia'.last.op = "respond"
              /\ cia'.preferences = cia.preferences
              /\ cia'.vectors = cia.vectors
              /\ cia'.last.status = "raised" => cia'.short_term = cia.short_term
              /\ cia'.last.status = "returned" => Len(cia'.short_term) = Len(cia.short_term) + 1
      ]_vars

\* after a saved exchange and two stored preferences, a respond raised
C24_Witness ==
    /\ cia.last.op = "respond"
    /\ cia.last.status = "raised"
    /\ Len(cia.short_term) = 1
    /\ cia.turns = 2
    /\ cia.preferences # {}
    /\ Len(cia.vectors) >= 1


\* the rows of the preferences table that hold key k
PrefRows(c, k) == {r \in c.preferences : r.key = k}

\* C25: the preferences table holds at most one row per key, with the value
\* last saved for it; the vector store only grows, by the text "k: v" of each
\* save_preference that returns; and a retrieve_context over a store of no
\* more than 3 texts returns every one of them, superseded values included.
C25_TableReplacesStoreAccumulates ==
    [][/\ \A k \in Keys :
              /\ Cardinality(PrefRows(cia', k)) <= 1
              /\ cia'.lastPref[k] = PyNone => PrefRows(cia', k) = {}
              /\ cia'.lastPref[k] # PyNone =>
                     \E r \in PrefRows(cia', k) : PyStr(r.value) = cia'.lastPref[k]
       /\ Len(cia'.vectors) >= Len(cia.vectors)
       /\ SubSeq(cia'.vectors, 1, Len(cia.vectors)) = cia.vectors
       /\ cia'.saves # cia.saves =>
              /\ cia'.last.op = "save_preference"
              /\ cia'.last.status = "returned" =>
                     /\ Len(cia'.vectors) = Len(cia.vectors) + 1
                     /\ cia'.vectors[Len(cia'.vectors)].text =
                            PrefText(cia'.last.key, cia'.last.value)
              /\ cia'.last.status = "raised" => cia'.vectors = cia.vectors
       /\ cia'.saves = cia.saves => cia'.vectors = cia.vectors
       /\ (cia'.last.op = "retrieve_context" /\ Len(cia'.vectors) <= SearchK) =>
              \A j \in DOMAIN cia'.vectors :
                  /\ \E i \in DOMAIN cia'.last.docs : cia'.last.docs[i] = cia'.vectors[j].text
                  /\ Contains(cia'.last.ret, <<"- ">> \o cia'.vectors[j].text)
      ]_vars

\* after save_preference(k, v1) and save_preference(k, v2) the table holds
\* v2 alone for k, the store holds both texts, and retrieve_context has
\* returned the superseded "k: v1"
C25_Witness ==
    \E k \in Keys, v1 \in Values, v2 \in Values :
        /\ v1 # v2
        /\ cia.last.op = "retrieve_context"
        /\ \A r \in PrefRows(cia, k) : r.value = v2
        /\ PrefRows(cia, k) # {}
        /\ [j \in DOMAIN cia.vectors |-> cia.vectors[j].text] =
               <<PrefText(k, v1), PrefText(k, v2)>>
        /\ Contains(cia.last.ret, <<"- ">> \o PrefText(k, v1))
        /\ \A j \in DOMAIN cia.last.preferences : cia.last.preferences[j][2] # v1

====
